---- MODULE Spec2Model ----
(***************************************************************************)
(* A model of levyt's lazy result Collection (src/levyt/records.py).       *)
(*                                                                         *)
(* Python objects live in three heaps, indexed by identity:                *)
(*   lists  - list objects (the _all_rows caches and the row snapshots     *)
(*            that a slice copies out of a cache),                         *)
(*   prods  - one-shot iterators (the record generator of a query, and the *)
(*            list iterators made by iter(rows) in a slice),               *)
(*   colls  - Collection objects (__slots__: _rows, _all_rows, pending).   *)
(* gens holds the generator objects that Collection.__iter__ returns.      *)
(* A Record of the result set is identified by its position, which is also *)
(* the value of its first column (Record(['id'], [i]) in the tests).       *)
(* The code is single-threaded: every call runs to completion, and a       *)
(* generator runs from one yield to the next, before anything else runs.   *)
(***************************************************************************)
EXTENDS Integers, Sequences, FiniteSets, TLC

\* ------------------------------------------------------------------ bounds
MaxN == 2        \* the query returns 0..MaxN records; integer keys are -MaxN..MaxN
MaxRepull == 1   \* next() requests sent to a producer after its StopIteration
MaxSlices == 1   \* sliced Collections alive at once
MaxCols == 3      \* columns of a Record
MaxTx == 3        \* transactions entered on one Database
MaxStmts == 2     \* statements executed in the body of a transaction
MaxLive == 2     \* sliced Collections and generator objects alive at once

VARIABLES
    N,          \* number of records the query's producer will yield
    lists,      \* heap of list objects: Seq(Seq(record))
    prods,      \* heap of one-shot iterators
    colls,      \* heap of Collection objects
    gens,       \* generator objects returned by Collection.__iter__
    origin,     \* history: for each Collection, the slice that made it
    yielded,    \* history: for each generator, the records it has yielded
    ret,        \* history: the last call and what it returned or raised
    rec,        \* a Record and the last lookup made on it
    tx,         \* the Database and its last scoped transaction
    conn        \* the Connection of a call of Database.query

vars == <<N, lists, prods, colls, gens, origin, yielded, ret, rec, tx, conn>>

NoRecord == 0 - 1

Min(a, b) == IF a < b THEN a ELSE b
Max(a, b) == IF a > b THEN a ELSE b

\* The rows of the query in cursor order; row i is Record(['id'], [i]).
ResultSet == [i \in 1..N |-> i - 1]

\* The three heaps, passed through the operators below as one value.
World == [lists |-> lists, prods |-> prods, colls |-> colls]

\* ------------------------------------------------------------ slice keys
\* slice(start, stop); a bound that is None has its ...None flag set.
SliceKey(start, startNone, stop, stopNone) ==
    [start |-> start, startNone |-> startNone, stop |-> stop, stopNone |-> stopNone]

\* Collection[i] is converted into slice(i, i + 1).
IntKey(i) == SliceKey(i, FALSE, i + 1, FALSE)

\* One bound of a list slice, as list.__getitem__ resolves it for a list of
\* length n: None is the default, a negative bound counts from the end, and
\* the result is clamped into 0..n.
SliceBound(v, none, dflt, n) ==
    IF none THEN dflt
    ELSE IF v < 0 THEN Max(v + n, 0)
    ELSE Min(v, n)

\* A faulty slice: the stop bound taken one too low.
PySliceOffByOne(s, key) ==
    SubSeq(s, SliceBound(key.start, key.startNone, 0, Len(s)) + 1,
              SliceBound(key.stop, key.stopNone, Len(s), Len(s)) - 1)

\* self._all_rows[key]: a new list with the elements lo .. hi-1.
PySlice(s, key) ==
    SubSeq(s, SliceBound(key.start, key.startNone, 0, Len(s)) + 1,
              SliceBound(key.stop, key.stopNone, Len(s), Len(s)))

\* ------------------------------------------------------------- producers
\* What a producer iterates over: the query's rows, or a list object.
Source(w, p) ==
    IF w.prods[p].kind = "gen" THEN ResultSet ELSE w.lists[w.prods[p].list]

\* next(self._rows): one request to the one-shot producer. It yields the
\* next element, or signals StopIteration and stays exhausted for good.
rows_next(w, p) ==
    LET Pull(pr, src) ==
            IF ~pr.done /\ pr.pos < Len(src)
            THEN [w   |-> [w EXCEPT !.prods[p] = [pr EXCEPT !.pulls = @ + 1, !.pos = @ + 1]],
                  ok  |-> TRUE,
                  val |-> src[pr.pos + 1]]
            ELSE [w   |-> [w EXCEPT !.prods[p] = [pr EXCEPT !.pulls = @ + 1, !.done = TRUE]],
                  ok  |-> FALSE,
                  val |-> NoRecord]
    IN  Pull(w.prods[p], Source(w, p))

\* iter(rows): a new list iterator over the list object l.
iter_list(w, l) ==
    [w EXCEPT !.prods = Append(@, [kind |-> "listiter", list |-> l, pos |-> 0,
                                   done |-> FALSE, pulls |-> 0])]

\* ------------------------------------------------------------ Collection

\* A faulty constructor: the new Collection starts with pending false.
InitNotPending(w, p) ==
    [w EXCEPT !.lists = Append(@, <<>>),
              !.colls = Append(@, [rows |-> p, all_rows |-> Len(w.lists) + 1,
                                   pending |-> FALSE])]

\* Collection.__init__(rows): the producer p, a new empty cache, pending.
__init__(w, p) ==
    [w EXCEPT !.lists = Append(@, <<>>),
              !.colls = Append(@, [rows |-> p, all_rows |-> Len(w.lists) + 1,
                                   pending |-> TRUE])]

\* Collection.__len__
__len__(w, c) == Len(w.lists[w.colls[c].all_rows])

\* A faulty __next__: pending is cleared by the first successful pull.
NextClearsPending(w, c) ==
    LET Got(r) ==
            IF r.ok
            THEN [w |-> [r.w EXCEPT !.lists[w.colls[c].all_rows] = Append(@, r.val),
                                    !.colls[c].pending = FALSE],
                  ok |-> TRUE, val |-> r.val]
            ELSE [w |-> [r.w EXCEPT !.colls[c].pending = FALSE],
                  ok |-> FALSE, val |-> NoRecord]
    IN  Got(rows_next(w, w.colls[c].rows))

\* A faulty __next__: the record pulled is returned but not cached.
NextDropsRecord(w, c) ==
    LET Got(r) ==
            IF r.ok
            THEN [w |-> r.w, ok |-> TRUE, val |-> r.val]
            ELSE [w |-> [r.w EXCEPT !.colls[c].pending = FALSE],
                  ok |-> FALSE, val |-> NoRecord]
    IN  Got(rows_next(w, w.colls[c].rows))

\* A faulty __next__: the record pulled is put at the front of the cache.
NextPrepends(w, c) ==
    LET Got(r) ==
            IF r.ok
            THEN [w |-> [r.w EXCEPT !.lists[w.colls[c].all_rows] = <<r.val>> \o @],
                  ok |-> TRUE, val |-> r.val]
            ELSE [w |-> [r.w EXCEPT !.colls[c].pending = FALSE],
                  ok |-> FALSE, val |-> NoRecord]
    IN  Got(rows_next(w, w.colls[c].rows))

\* Collection.__next__: pull one record and append it to the cache; on
\* StopIteration clear pending and raise StopIteration (ok = FALSE).
__next__(w, c) ==
    LET Got(r) ==
            IF r.ok
            THEN [w |-> [r.w EXCEPT !.lists[w.colls[c].all_rows] = Append(@, r.val)],
                  ok |-> TRUE, val |-> r.val]
            ELSE [w |-> [r.w EXCEPT !.colls[c].pending = FALSE],
                  ok |-> FALSE, val |-> NoRecord]
    IN  Got(rows_next(w, w.colls[c].rows))

\* A faulty loop: it pulls until the producer is exhausted, whatever stop is.
RECURSIVE FillToEnd(_, _, _)
FillToEnd(w, c, stop) ==
    LET Got(r) == IF r.ok THEN FillToEnd(r.w, c, stop) ELSE r.w
    IN  Got(__next__(w, c))

\* The loop of __getitem__ for a stop that is not None:
\*   while len(self) < key.stop: try next(self) except StopIteration: break
RECURSIVE FillTo(_, _, _)
FillTo(w, c, stop) ==
    LET Got(r) == IF r.ok THEN FillTo(r.w, c, stop) ELSE r.w
    IN  IF __len__(w, c) < stop THEN Got(__next__(w, c)) ELSE w

\* What a call returns or raises, with the heaps it leaves behind.
Return(w, what, val) == [w |-> w, kind |-> "return", what |-> what, val |-> val]
Raise(w, what) == [w |-> w, kind |-> "raise", what |-> what, val |-> NoRecord]

\* A faulty slice: the new Collection is given the parent's producer.
SliceSharesProducer(w, c, rows) ==
    LET Made(w1) == Return(w1, "Collection", Len(w1.colls))
    IN  Made(__init__([w EXCEPT !.lists = Append(@, rows)], w.colls[c].rows))

\* Collection(iter(rows)) for rows = self._all_rows[key], a new list object.
SliceCollection(w, c, rows) ==
    LET Made(w1) == Return(w1, "Collection", Len(w1.colls))
    IN  Made(__init__(iter_list([w EXCEPT !.lists = Append(@, rows)], Len(w.lists) + 1),
                      Len(w.prods) + 1))

\* A faulty __getitem__: it answers from the cache and never pulls.
GetItemNoFill(w, c, key, is_int) ==
    LET Pick(w1, rows) ==
            IF is_int
            THEN IF rows = <<>> THEN Raise(w1, "IndexError")
                 ELSE Return(w1, "Record", rows[1])
            ELSE SliceCollection(w1, c, rows)
    IN  IF key.stopNone THEN Raise(w, "TypeError")
        ELSE Pick(w, PySlice(w.lists[w.colls[c].all_rows], key))

\* Collection.__getitem__(key). With key.stop None, the loop condition
\* len(self) < key.stop compares an int with None and raises TypeError
\* before `key.stop is None` is evaluated and before any pull.
__getitem__(w, c, key, is_int) ==
    LET Pick(w1, rows) ==
            IF is_int
            THEN IF rows = <<>> THEN Raise(w1, "IndexError")
                 ELSE Return(w1, "Record", rows[1])
            ELSE SliceCollection(w1, c, rows)
        Filled(w1) == Pick(w1, PySlice(w1.lists[w1.colls[c].all_rows], key))
    IN  IF key.stopNone THEN Raise(w, "TypeError")
        ELSE Filled(FillTo(w, c, key.stop))

\* ------------------------------------------------------------- defaults
\* The values a caller passes as `default`: None (the default of `default`),
\* a plain value, an Exception instance, an Exception class.
Defaults == {"None", "plain", "excInstance", "excClass"}

\* _is_exception(obj): isinstance(obj, Exception), or a class and
\* issubclass(obj, Exception).
_is_exception(obj) == obj = "excInstance" \/ obj = "excClass"

\* `return default` is Return(w, "default", ..) and `raise default` is
\* Raise(w, "default"), for the default the caller passed.

\* A faulty first: default is returned without asking _is_exception.
FirstNeverRaises(w, c, default) ==
    LET Got(r) ==
            IF r.kind = "raise" /\ r.what = "IndexError"
            THEN Return(r.w, "default", NoRecord)
            ELSE r
    IN  Got(__getitem__(w, c, IntKey(0), TRUE))

\* Collection.first(default=...)
first(w, c, default) ==
    LET Got(r) ==
            IF r.kind = "raise" /\ r.what = "IndexError"
            THEN IF _is_exception(default)
                 THEN Raise(r.w, "default")
                 ELSE Return(r.w, "default", NoRecord)
            ELSE r
    IN  Got(__getitem__(w, c, IntKey(0), TRUE))

\* A faulty one: a second record is ignored and the first one returned.
OneIgnoresSecond(w, c, default) ==
    LET Got(r) ==
            IF r.kind = "raise" /\ r.what # "IndexError" THEN r
            ELSE first(r.w, c, default)
    IN  Got(__getitem__(w, c, IntKey(1), TRUE))

\* Collection.one(default=...): self[1] first, then first(default).
one(w, c, default) ==
    LET Got(r) ==
            IF r.kind = "raise" /\ r.what = "IndexError"
            THEN first(r.w, c, default)
            ELSE IF r.kind = "raise" THEN r
            ELSE Raise(r.w, "ValueError")
    IN  Got(__getitem__(w, c, IntKey(1), TRUE))

\* A faulty scalar: default is handed on to one().
ScalarForwardsDefault(w, c, default) ==
    LET Got(r) ==
            IF r.kind = "raise" THEN r
            ELSE IF r.what = "Record" THEN Return(r.w, "value", r.val)
            ELSE Return(r.w, "default", NoRecord)
    IN  Got(one(w, c, default))

\* Collection.scalar(default=...): record = self.one(), so one() gets its
\* own default None and returns a Record or None (or raises ValueError);
\*   return record[0] if record else default
\* A Record is truthy (it defines neither __bool__ nor __len__) and its
\* column 0 is its id; None is not truthy.
scalar(w, c, default) ==
    LET Got(r) ==
            IF r.kind = "raise" THEN r
            ELSE IF r.what = "Record" THEN Return(r.w, "value", r.val)
            ELSE Return(r.w, "default", NoRecord)
    IN  Got(one(w, c, "None"))

\* ------------------------------------------------------------- iteration
Yield(w, val) == [w |-> w, kind |-> "yield", what |-> "Record", val |-> val]
Stop(w) == [w |-> w, kind |-> "return", what |-> "None", val |-> NoRecord]

\* A faulty loop body: it pulls without looking at the cache.
IterBodyNoCache(w, c, i) ==
    LET Pulled(r) == IF r.ok THEN Yield(r.w, r.val) ELSE Stop(r.w)
    IN  Pulled(__next__(w, c))

\* A faulty loop body: the StopIteration of next(self) is not caught.
IterBodyLeaksStop(w, c, i) ==
    LET Cached(r) == IF r.kind = "raise" THEN r ELSE Yield(r.w, r.val)
        Pulled(r) == IF r.ok THEN Yield(r.w, r.val) ELSE Raise(r.w, "StopIteration")
    IN  IF i < __len__(w, c)
        THEN Cached(__getitem__(w, c, IntKey(i), TRUE))
        ELSE Pulled(__next__(w, c))

\* One pass of the loop of Collection.__iter__ with the counter at i, up to
\* its yield or return:
\*   if i < len(self): yield self[i]
\*   else: try: yield next(self) except StopIteration: return
IterBody(w, c, i) ==
    LET Cached(r) == IF r.kind = "raise" THEN r ELSE Yield(r.w, r.val)
        Pulled(r) == IF r.ok THEN Yield(r.w, r.val) ELSE Stop(r.w)
    IN  IF i < __len__(w, c)
        THEN Cached(__getitem__(w, c, IntKey(i), TRUE))
        ELSE Pulled(__next__(w, c))

\* next(g) on a generator object g of __iter__: a finished generator raises
\* StopIteration at once; a suspended one resumes after its yield (i += 1).
\* It ends "done" when the body returns, "failed" when an exception leaves it.
__iter__(w, g) ==
    LET Ran(i, r) ==
            [w |-> r.w,
             g |-> [g EXCEPT !.i = i,
                             !.state = IF r.kind = "yield" THEN "suspended"
                                       ELSE IF r.kind = "return" THEN "done"
                                       ELSE "failed"],
             kind |-> r.kind, what |-> r.what, val |-> r.val]
        At(i) == Ran(i, IterBody(w, g.coll, i))
    IN  IF g.state \in {"done", "failed"}
        THEN [w |-> w, g |-> g, kind |-> "return", what |-> "None", val |-> NoRecord]
        ELSE At(IF g.state = "suspended" THEN g.i + 1 ELSE g.i)

\* list(self): a new generator of __iter__ run until it stops.
RECURSIVE ListOf(_, _, _)
ListOf(w, g, acc) ==
    LET Got(r) ==
            IF r.kind = "yield" THEN ListOf(r.w, r.g, Append(acc, r.val))
            ELSE IF r.kind = "raise"
            THEN [w |-> r.w, kind |-> "raise", what |-> r.what, rows |-> acc]
            ELSE [w |-> r.w, kind |-> "return", what |-> "list", rows |-> acc]
    IN  Got(__iter__(w, g))

NewGen(c) == [coll |-> c, i |-> 0, state |-> "created"]

\* Collection.all(): rows = list(self); return rows.
all(w, c) == ListOf(w, NewGen(c), <<>>)

\* ---------------------------------------------------------------- state
\* No Record has been looked up, and no transaction has been entered.
NoLookup == [op |-> "none"]
NoTransaction == [pc |-> "none"]
\* Database.query has not been called.
NoConnection == [pc |-> "none"]

NoKey == SliceKey(0, TRUE, 0, TRUE)

Call(op, c, g, key, default, kind, what, val, rows) ==
    [op |-> op, c |-> c, g |-> g, key |-> key, default |-> default,
     kind |-> kind, what |-> what, val |-> val, rows |-> rows]

\* rows = Collection(Record(['id'], [i]) for i in range(N))
Init ==
    /\ N \in 0..MaxN
    /\ lists = << <<>> >>
    /\ prods = << [kind |-> "gen", list |-> 0, pos |-> 0, done |-> FALSE, pulls |-> 0] >>
    /\ colls = << [rows |-> 1, all_rows |-> 1, pending |-> TRUE] >>
    /\ gens = <<>>
    /\ origin = << [parent |-> 0, key |-> NoKey] >>
    /\ yielded = <<>>
    /\ ret = Call("init", 1, 0, NoKey, "None", "return", "Collection", 1, <<>>)
    /\ rec = NoLookup
    /\ tx = NoTransaction
    /\ conn = NoConnection

\* The caller keeps the query's Collection and up to MaxLive other objects.
Room == (Len(colls) - 1) + Len(gens) < MaxLive

Colls == 1..Len(colls)
Gens == 1..Len(gens)

\* A call is modelled as long as no producer gets more than MaxRepull
\* requests after the one that exhausted it.
Capped(w) ==
    \A p \in 1..Len(w.prods) :
        w.prods[p].pulls <= Len(Source(w, p)) + 1 + MaxRepull

Heaps(w) ==
    /\ lists' = w.lists
    /\ prods' = w.prods
    /\ colls' = w.colls

\* The bounds of the slices the model takes.
Bound(x) == [v |-> x, none |-> FALSE]
None == [v |-> 0, none |-> TRUE]
SliceStarts == {None} \cup {Bound(x) : x \in 0..(MaxN - 1)}
SliceStops == {None} \cup {Bound(x) : x \in 0..MaxN}

\* ---------------------------------------------------------------- calls
\* next(rows) / rows.next()
CallNext(c) ==
    /\ LET Done(r) ==
            /\ Capped(r.w)
            /\ Heaps(r.w)
            /\ ret' = IF r.ok
                      THEN Call("next", c, 0, NoKey, "None", "return", "Record", r.val, <<>>)
                      ELSE Call("next", c, 0, NoKey, "None", "raise", "StopIteration", NoRecord, <<>>)
       IN  Done(__next__(World, c))
    /\ UNCHANGED <<N, gens, origin, yielded, rec, tx, conn>>

\* rows[i]
CallIndex(c, i) ==
    /\ LET Done(r) ==
            /\ Capped(r.w)
            /\ Heaps(r.w)
            /\ ret' = Call("index", c, 0, IntKey(i), "None", r.kind, r.what, r.val, <<>>)
       IN  Done(__getitem__(World, c, IntKey(i), TRUE))
    /\ UNCHANGED <<N, gens, origin, yielded, rec, tx, conn>>

\* rows[start:stop]
CallSlice(c, start, stop) ==
    /\ stop.none \/ (Len(colls) - 1 < MaxSlices /\ Room)
    /\ LET Done(key, r) ==
            /\ Capped(r.w)
            /\ Heaps(r.w)
            /\ origin' = IF r.kind = "return"
                         THEN Append(origin, [parent |-> c, key |-> key])
                         ELSE origin
            /\ ret' = Call("slice", c, 0, key, "None", r.kind, r.what, r.val, <<>>)
           At(key) == Done(key, __getitem__(World, c, key, FALSE))
       IN  At(SliceKey(start.v, start.none, stop.v, stop.none))
    /\ UNCHANGED <<N, gens, yielded, rec, tx, conn>>

\* iter(rows): a generator object; none of its code has run yet.
CallIter(c) ==
    /\ Room
    /\ gens' = Append(gens, NewGen(c))
    /\ yielded' = Append(yielded, <<>>)
    /\ ret' = Call("iter", c, Len(gens) + 1, NoKey, "None", "return", "generator", NoRecord, <<>>)
    /\ UNCHANGED <<N, lists, prods, colls, origin, rec, tx, conn>>

\* next(g) on a generator object of __iter__. A generator sends its producer
\* at most one request after exhaustion, so its steps need no cap.
StepGen(g) ==
    /\ LET Done(r) ==
            /\ Heaps(r.w)
            /\ gens' = [gens EXCEPT ![g] = r.g]
            /\ yielded' = IF r.kind = "yield"
                          THEN [yielded EXCEPT ![g] = Append(@, r.val)]
                          ELSE yielded
            /\ ret' = IF r.kind = "return"
                      THEN Call("step", gens[g].coll, g, NoKey, "None", "raise", "StopIteration", NoRecord, <<>>)
                      ELSE Call("step", gens[g].coll, g, NoKey, "None", r.kind, r.what, r.val, <<>>)
       IN  Done(__iter__(World, gens[g]))
    /\ UNCHANGED <<N, origin, rec, tx, conn>>

\* rows.all()
CallAll(c) ==
    /\ LET Done(r) ==
            /\ Capped(r.w)
            /\ Heaps(r.w)
            /\ ret' = Call("all", c, 0, NoKey, "None", r.kind, r.what, NoRecord, r.rows)
       IN  Done(all(World, c))
    /\ UNCHANGED <<N, gens, origin, yielded, rec, tx, conn>>

\* rows.first(default=d)
CallFirst(c, d) ==
    /\ LET Done(r) ==
            /\ Capped(r.w)
            /\ Heaps(r.w)
            /\ ret' = Call("first", c, 0, NoKey, d, r.kind, r.what, r.val, <<>>)
       IN  Done(first(World, c, d))
    /\ UNCHANGED <<N, gens, origin, yielded, rec, tx, conn>>

\* rows.one(default=d)
CallOne(c, d) ==
    /\ LET Done(r) ==
            /\ Capped(r.w)
            /\ Heaps(r.w)
            /\ ret' = Call("one", c, 0, NoKey, d, r.kind, r.what, r.val, <<>>)
       IN  Done(one(World, c, d))
    /\ UNCHANGED <<N, gens, origin, yielded, rec, tx, conn>>

\* rows.scalar(default=d)
CallScalar(c, d) ==
    /\ LET Done(r) ==
            /\ Capped(r.w)
            /\ Heaps(r.w)
            /\ ret' = Call("scalar", c, 0, NoKey, d, r.kind, r.what, r.val, <<>>)
       IN  Done(scalar(World, c, d))
    /\ UNCHANGED <<N, gens, origin, yielded, rec, tx, conn>>

Next ==
    \/ \E c \in Colls : CallNext(c)
    \/ \E c \in Colls, i \in (0 - MaxN)..MaxN : CallIndex(c, i)
    \/ \E c \in Colls, start \in SliceStarts, stop \in SliceStops : CallSlice(c, start, stop)
    \/ \E c \in Colls : CallIter(c)
    \/ \E g \in Gens : StepGen(g)
    \/ \E c \in Colls : CallAll(c)
    \/ \E c \in Colls, d \in Defaults : CallFirst(c, d)
    \/ \E c \in Colls, d \in Defaults : CallOne(c, d)
    \/ \E c \in Colls, d \in Defaults : CallScalar(c, d)

Spec == Init /\ [][Next]_vars

\* Iterations, interleaved with next(), index access and all(); a caller
\* that holds a generator object keeps stepping it (a for loop, list()).
NextIter ==
    \/ \E c \in Colls : CallNext(c)
    \/ \E c \in Colls, i \in 0..MaxN : CallIndex(c, i)
    \/ \E c \in Colls : CallIter(c)
    \/ \E g \in Gens : StepGen(g)
    \/ \E c \in Colls : CallAll(c)

SpecIter ==
    /\ Init
    /\ [][NextIter]_vars
    /\ \A g \in 1..MaxLive : WF_vars(g \in Gens /\ StepGen(g))

\* --------------------------------------------------------------- Record
\* Column names of a Record, the names a caller asks for ("name" is in no
\* Record here), the values of its cells, and the default handed to get().
Columns == {"id", "email"}
KeyNames == Columns \cup {"name"}
CellValues == {10, 20}
DefaultValue == 0

\* A key of Record.__getitem__: a str (name) or an int (idx).
StrKey(name) == [isint |-> FALSE, name |-> name, idx |-> 0]
IntIndex(idx) == [isint |-> TRUE, name |-> "", idx |-> idx]

RecReturn(val) == [kind |-> "return", what |-> "value", val |-> val]
RecRaise(what) == [kind |-> "raise", what |-> what, val |-> DefaultValue]

\* list[i] for an int i: from the end when i is negative, IndexError when
\* i is outside -len..len-1.
PyIndex(list, i) ==
    IF 0 <= i /\ i < Len(list) THEN RecReturn(list[i + 1])
    ELSE IF i < 0 /\ 0 - i <= Len(list) THEN RecReturn(list[Len(list) + i + 1])
    ELSE RecRaise("IndexError")

\* list.index(x) for an x that is in the list: its first position, from 0.
PyListIndex(list, x) ==
    (CHOOSE p \in 1..Len(list) :
        list[p] = x /\ \A q \in 1..(p - 1) : list[q] # x) - 1

\* list.count(x)
PyCount(list, x) == Cardinality({p \in 1..Len(list) : list[p] = x})

\* A faulty lookup: of several columns of one name the first is returned.
GetItemFirstOfDuplicates(keys, values, key) ==
    IF key.isint THEN PyIndex(values, key.idx)
    ELSE IF PyCount(keys, key.name) > 0
    THEN PyIndex(values, PyListIndex(keys, key.name))
    ELSE RecRaise("KeyError")

\* Record.__getitem__(key)
Record__getitem__(keys, values, key) ==
    IF key.isint THEN PyIndex(values, key.idx)
    ELSE IF PyCount(keys, key.name) > 0
    THEN IF PyCount(keys, key.name) > 1
         THEN RecRaise("KeyError")
         ELSE PyIndex(values, PyListIndex(keys, key.name))
    ELSE RecRaise("KeyError")

\* Record.get(key, default=...): only KeyError is caught.
get(keys, values, key, default) ==
    LET Got(r) ==
            IF r.kind = "raise" /\ r.what = "KeyError"
            THEN RecReturn(default)
            ELSE r
    IN  Got(Record__getitem__(keys, values, key))

Looked(op, key, r) ==
    [op |-> op, keys |-> rec.keys, values |-> rec.values, key |-> key,
     kind |-> r.kind, what |-> r.what, val |-> r.val]

\* The Collection of the query is left alone while a Record is looked at.
CollectionIdle == UNCHANGED <<N, lists, prods, colls, gens, origin, yielded, ret, tx, conn>>

\* record = Record(keys, values); __init__ asserts len(keys) == len(values).
NewRecord(keys, values) ==
    /\ rec.op = "none"
    /\ Len(keys) = Len(values)
    /\ rec' = [op |-> "new", keys |-> keys, values |-> values,
               key |-> IntIndex(0), kind |-> "return", what |-> "Record",
               val |-> DefaultValue]
    /\ CollectionIdle

\* record[key]
CallRecordGetItem(key) ==
    /\ rec.op # "none"
    /\ rec' = Looked("getitem", key, Record__getitem__(rec.keys, rec.values, key))
    /\ CollectionIdle

\* record.get(key, default=DefaultValue)
CallRecordGet(key) ==
    /\ rec.op # "none"
    /\ rec' = Looked("get", key, get(rec.keys, rec.values, key, DefaultValue))
    /\ CollectionIdle

SeqsUpTo(S, n) == UNION {[1..k -> S] : k \in 0..n}
Keys ==
    {StrKey(name) : name \in KeyNames}
        \cup {IntIndex(i) : i \in (0 - MaxCols - 1)..MaxCols}

NextRecord ==
    \/ \E keys \in SeqsUpTo(Columns, MaxCols), values \in SeqsUpTo(CellValues, MaxCols) :
            NewRecord(keys, values)
    \/ \E key \in Keys : CallRecordGetItem(key)
    \/ \E key \in Keys : CallRecordGet(key)

InitRecord == Init /\ N = 0

SpecRecord == InitRecord /\ [][NextRecord]_vars

\* ---------------------------------------------------- Database.transaction
\* The generator of Database.transaction as driven by contextlib's
\* contextmanager and a `with` statement: __enter__ runs it to its yield,
\* the body then runs in the caller, and __exit__ resumes it (throwing the
\* body's exception in at the yield, if there is one) and runs it to its
\* end. When the generator ends without an exception the with statement
\* ends normally, the body's exception included: it is suppressed. The
\* engine may fail to connect, to begin and to commit and a statement of
\* the body may raise; rollback() and close() are taken to succeed.
\*   pc          where the with statement stands: "idle" outside it
\*   open        Database.open
\*   nconn       connections checked out of the engine and not closed
\*   ntx         transactions entered so far
\*   rows, pending   rows committed to the table, rows inserted and not yet
\*                   committed
\*   before      rows when the transaction was entered
\*   stmts       statements the body has executed
\*   acquired, closes, commits, rollbacks   history of this transaction
\*   failed      the step of this transaction that raised, or "none"
\*   raised      an exception is in flight in the generator
\*   exit        how the with statement ended: "continues" or "raises"

\* db = Database(url)
Database__init__ ==
    [pc |-> "idle", open |-> TRUE, nconn |-> 0, ntx |-> 0, rows |-> 0,
     pending |-> 0, before |-> 0, stmts |-> 0, acquired |-> FALSE,
     closes |-> 0, commits |-> 0, rollbacks |-> 0, failed |-> "none",
     raised |-> FALSE, exit |-> "none"]

\* The caller sees the exception: the with statement is left by raising.
Propagate(t, step) ==
    [t EXCEPT !.pc = "idle", !.failed = step, !.raised = FALSE, !.exit = "raises"]

\* conn = self.get_connection(), the first line of the generator.
get_connection(t, ok) ==
    LET Entered(t1) ==
            IF ~t1.open THEN Propagate(t1, "closed")
            ELSE IF ~ok THEN Propagate(t1, "connect")
            ELSE [t1 EXCEPT !.pc = "begin", !.acquired = TRUE, !.nconn = @ + 1]
    IN  Entered([t EXCEPT !.ntx = @ + 1, !.before = t.rows, !.pending = 0,
                          !.stmts = 0, !.acquired = FALSE, !.closes = 0,
                          !.commits = 0, !.rollbacks = 0, !.failed = "none",
                          !.raised = FALSE, !.exit = "none"])

\* tx = conn.transaction(), which is self._conn.begin(): it stands before
\* the try, so its exception leaves the generator at once.
begin(t, ok) ==
    IF ok THEN [t EXCEPT !.pc = "body"] ELSE Propagate(t, "begin")

\* conn.execute('INSERT ...') in the body
execute(t) == [t EXCEPT !.stmts = @ + 1, !.pending = @ + 1]

\* An exception at the yield or in tx.commit(): control goes to `except:`.
Throw(t, step) == [t EXCEPT !.pc = "except", !.failed = step, !.raised = TRUE]

\* tx.commit()
commit(t, ok) ==
    IF ok
    THEN [t EXCEPT !.pc = "finally", !.rows = @ + t.pending, !.pending = 0,
                   !.commits = @ + 1]
    ELSE Throw(t, "commit")

\* A faulty handler: `except: tx.rollback(); raise`.
ExceptReraises(t) ==
    [t EXCEPT !.pc = "finally", !.pending = 0, !.rollbacks = @ + 1]

\* except: tx.rollback()   -- a bare except, which ends the exception
except_clause(t) ==
    [t EXCEPT !.pc = "finally", !.pending = 0, !.rollbacks = @ + 1,
              !.raised = FALSE]

\* finally: conn.close(); then the generator ends, or the exception that is
\* still in flight leaves it.
finally_clause(t) ==
    [t EXCEPT !.pc = "idle", !.nconn = @ - 1, !.closes = @ + 1,
              !.exit = IF t.raised THEN "raises" ELSE "continues",
              !.raised = FALSE]

\* No Record and no Collection is touched by a transaction.
OnlyTx == UNCHANGED <<N, lists, prods, colls, gens, origin, yielded, ret, rec, conn>>

NewDatabase ==
    /\ tx.pc = "none"
    /\ tx' = Database__init__
    /\ OnlyTx

\* with db.transaction() as conn:  -- __enter__ starts the generator
TxEnter(ok) ==
    /\ tx.pc = "idle"
    /\ tx.ntx < MaxTx
    /\ tx' = get_connection(tx, ok)
    /\ OnlyTx

TxBegin(ok) ==
    /\ tx.pc = "begin"
    /\ tx' = begin(tx, ok)
    /\ OnlyTx

\* A statement of the body executes.
TxExecute ==
    /\ tx.pc = "body"
    /\ tx.stmts < MaxStmts
    /\ tx' = execute(tx)
    /\ OnlyTx

\* The body raises (raise ValueError(), or a statement that fails).
TxBodyRaises ==
    /\ tx.pc = "body"
    /\ tx' = Throw(tx, "body")
    /\ OnlyTx

\* The body ends: __exit__ resumes the generator after its yield.
TxCommit(ok) ==
    /\ tx.pc = "body"
    /\ tx' = commit(tx, ok)
    /\ OnlyTx

TxExcept ==
    /\ tx.pc = "except"
    /\ tx' = except_clause(tx)
    /\ OnlyTx

TxFinally ==
    /\ tx.pc = "finally"
    /\ tx' = finally_clause(tx)
    /\ OnlyTx

\* db.close()
DatabaseClose ==
    /\ tx.pc = "idle"
    /\ tx.open
    /\ tx' = [tx EXCEPT !.open = FALSE]
    /\ OnlyTx

NextTx ==
    \/ NewDatabase
    \/ \E ok \in BOOLEAN : TxEnter(ok)
    \/ \E ok \in BOOLEAN : TxBegin(ok)
    \/ TxExecute
    \/ TxBodyRaises
    \/ \E ok \in BOOLEAN : TxCommit(ok)
    \/ TxExcept
    \/ TxFinally
    \/ DatabaseClose

InitTx == Init /\ N = 0

SpecTx == InitTx /\ [][NextTx]_vars

\* ------------------------------------------------------- Database.query
\*   with self.get_connection() as conn: return conn.query(query, **params)
\* The fields of conn:
\*   pc        where the call stands: "start", "with" (inside the with
\*             block), "exit" (the value of `return` or the exception is
\*             held while Connection.__exit__ runs), then "returned" or
\*             "raised"
\*   dbopen    Database.open
\*   open      Connection.open
\*   acquired, closes   history of the call
\*   exc       conn.query raised
\* The rows of the cursor are the rows of ResultSet; what the engine does
\* when a row is asked of a cursor whose connection is closed is the
\* engine's matter and is not modelled: the producer answers as before.

\* self.get_connection(): ResourceClosedError on a closed Database, else a
\* Connection, open, which the with statement enters (__enter__ returns it).
QueryGetConnection(k) ==
    IF ~k.dbopen THEN [k EXCEPT !.pc = "raised"]
    ELSE [k EXCEPT !.pc = "with", !.open = TRUE, !.acquired = TRUE]

\* A faulty __exit__: the connection is left open.
ExitLeavesOpen(k) ==
    [k EXCEPT !.pc = IF k.exc THEN "raised" ELSE "returned"]

\* Connection.__exit__: return self.close(). close() returns None, so an
\* exception of the block is not suppressed.
Connection__exit__(k) ==
    [k EXCEPT !.pc = IF k.exc THEN "raised" ELSE "returned",
              !.open = FALSE, !.closes = @ + 1]

\* Connection.query: the cursor is executed, a generator expression over it
\* is created (none of its code runs) and handed to Collection(...).
Connection_query(w) ==
    __init__([w EXCEPT !.prods = Append(@, [kind |-> "gen", list |-> 0, pos |-> 0,
                                            done |-> FALSE, pulls |-> 0])],
             Len(w.prods) + 1)

OnlyConn == UNCHANGED <<N, lists, prods, colls, gens, origin, yielded, ret, rec, tx>>

\* db.query(...) is called and asks for a connection.
DbQueryEnter ==
    /\ conn.pc = "start"
    /\ conn' = QueryGetConnection(conn)
    /\ OnlyConn

\* conn.query(...) inside the with block; self._conn.execute may raise.
DbQueryRun(ok) ==
    /\ conn.pc = "with"
    /\ conn' = [conn EXCEPT !.pc = "exit", !.exc = ~ok]
    /\ IF ok
       THEN /\ Heaps(Connection_query(World))
            /\ origin' = Append(origin, [parent |-> 0, key |-> NoKey])
            /\ ret' = Call("query", Len(colls) + 1, 0, NoKey, "None", "return",
                           "Collection", Len(colls) + 1, <<>>)
       ELSE UNCHANGED <<lists, prods, colls, origin, ret>>
    /\ UNCHANGED <<N, gens, yielded, rec, tx>>

\* The with block is left: Connection.__exit__, then db.query returns the
\* Collection or lets the exception through.
DbQueryExit ==
    /\ conn.pc = "exit"
    /\ conn' = Connection__exit__(conn)
    /\ OnlyConn

\* The caller has the Collection only once db.query has returned it.
Returned == conn.pc = "returned"

NextQuery ==
    \/ DbQueryEnter
    \/ \E ok \in BOOLEAN : DbQueryRun(ok)
    \/ DbQueryExit
    \/ Returned /\ \E c \in Colls : CallNext(c)
    \/ Returned /\ \E c \in Colls, i \in 0..MaxN : CallIndex(c, i)
    \/ Returned /\ \E c \in Colls : CallIter(c)
    \/ Returned /\ \E g \in Gens : StepGen(g)
    \/ Returned /\ \E c \in Colls, d \in Defaults : CallFirst(c, d)

\* A Database, open or closed, a table of N rows, and no Collection yet.
InitQuery ==
    /\ N \in 0..MaxN
    /\ lists = <<>>
    /\ prods = <<>>
    /\ colls = <<>>
    /\ gens = <<>>
    /\ origin = <<>>
    /\ yielded = <<>>
    /\ ret = Call("none", 0, 0, NoKey, "None", "return", "None", NoRecord, <<>>)
    /\ rec = NoLookup
    /\ tx = NoTransaction
    /\ \E o \in BOOLEAN :
           conn = [pc |-> "start", dbopen |-> o, open |-> FALSE, acquired |-> FALSE,
                   closes |-> 0, exc |-> FALSE]

SpecQuery == InitQuery /\ [][NextQuery]_vars

\* ------------------------------------------------------------ properties
Cache(c) == lists[colls[c].all_rows]
Producer(c) == prods[colls[c].rows]
\* The records the producer of Collection c is a producer of.
Records(c) == Source(World, colls[c].rows)

IsPrefix(s, t) == Len(s) <= Len(t) /\ s = SubSeq(t, 1, Len(s))

\* C1: every iteration started by iter(), however its steps are interleaved
\* with other iterations, next() calls and index accesses, yields record 0,
\* record 1, ... in order from position 0, and when it ends it has yielded
\* exactly the N records of the Collection's producer.
MultiIteratorConsistency ==
    \A g \in Gens :
        /\ IsPrefix(yielded[g], Records(gens[g].coll))
        /\ gens[g].state = "done" => yielded[g] = Records(gens[g].coll)

\* Two iterations over the query's Collection, both run to the end.
WitnessC1 ==
    /\ N >= 2
    /\ Len(gens) = 2
    /\ \A g \in Gens : gens[g].coll = 1 /\ gens[g].state = "done"

\* C2: in every state the producer of each Collection has yielded exactly
\* len(cache) records, and no record is in the cache twice.
AtMostOnceConsumption ==
    \A c \in Colls :
        /\ Producer(c).pos = Len(Cache(c))
        /\ \A i, j \in 1..Len(Cache(c)) : Cache(c)[i] = Cache(c)[j] => i = j

\* The query's Collection drained, after a slice, an iteration and an
\* aggregate call.
WitnessC2 ==
    /\ N >= 2
    /\ Len(Cache(1)) = N
    /\ ~colls[1].pending
    /\ Len(colls) = 2
    /\ Len(gens) = 1
    /\ ret.op \in {"first", "one", "scalar"}

CacheIsPrefix == \A c \in Colls : IsPrefix(Cache(c), Records(c))

CacheGrowsAtEnd ==
    \A a \in 1..Len(lists) : IsPrefix(lists[a], lists'[a])

\* C3: the cache is always the first len(cache) records of the result set
\* in order, and a step only appends to it: no entry changes once written.
PrefixCacheInvariant == [](CacheIsPrefix) /\ [][CacheGrowsAtEnd]_vars

\* An index access has filled the cache up to a record before the last.
WitnessC3 ==
    /\ ret.op = "index"
    /\ ret.kind = "return"
    /\ Len(Cache(1)) = 1
    /\ N = 2

\* C4: no producer is sent more requests than its N records plus the one
\* request that finds it exhausted.
NoPullAfterExhaustion ==
    \A p \in 1..Len(prods) : prods[p].pulls <= Len(Source(World, p)) + 1

Lo(key) == IF key.startNone THEN 0 ELSE key.start

\* C5: a slice [start:stop] with 0 <= start <= stop of the query's
\* Collection yields records start .. min(stop, N)-1 when iterated, and the
\* query's Collection, iterated with a slice taken, yields all N records and
\* then has length N.
SliceYieldsItsRange ==
    /\ (ret.op = "all" /\ ret.c = 1) =>
            /\ ret.kind = "return"
            /\ ret.rows = ResultSet
            /\ Len(Cache(1)) = N
    /\ \A c \in Colls :
        (origin[c].parent = 1 /\ Lo(origin[c].key) <= origin[c].key.stop) =>
            /\ (ret.op = "all" /\ ret.c = c) =>
                    ret.rows = SubSeq(ResultSet, Lo(origin[c].key) + 1,
                                      Min(origin[c].key.stop, N))
            /\ \A g \in Gens :
                    (gens[g].coll = c /\ gens[g].state = "done") =>
                        yielded[g] = SubSeq(ResultSet, Lo(origin[c].key) + 1,
                                            Min(origin[c].key.stop, N))

\* rows[:1] was iterated to its end, then all of rows.
WitnessC5 ==
    /\ N = 2
    /\ Len(colls) = 2
    /\ origin[2].key.startNone
    /\ origin[2].key.stop = 1
    /\ Cache(2) = <<0>>
    /\ ~colls[2].pending
    /\ ret.op = "all"
    /\ ret.c = 1
    /\ ret.rows = <<0, 1>>

\* C6: a call on one Collection changes the cache, the pending flag and the
\* producer of no other Collection, and no call changes the rows a sliced
\* Collection's producer was made over.
SliceIndependence ==
    [][\A c \in Colls :
            /\ ret'.c # c =>
                    /\ colls'[c] = colls[c]
                    /\ lists'[colls[c].all_rows] = Cache(c)
                    /\ prods'[colls[c].rows] = Producer(c)
            /\ Producer(c).kind = "listiter" =>
                    lists'[Producer(c).list] = lists[Producer(c).list]]_vars

\* The parent was advanced after the slice, and then the slice.
WitnessC6 ==
    /\ Len(colls) = 2
    /\ ret.op = "next"
    /\ ret.c = 2
    /\ ret.kind = "return"
    /\ Len(Cache(1)) > Len(Records(2))

\* C7 as claimed: the Collection a slice returns is exhausted, with pending
\* false and the snapshot cache[start:stop] as its cache.
SliceReturnsExhausted ==
    (ret.op = "slice" /\ ret.kind = "return") =>
        /\ ~colls[ret.val].pending
        /\ Cache(ret.val) = PySlice(Cache(ret.c), ret.key)

\* C7: the Collection a slice returns is fresh: pending is true, its cache
\* is empty, and its producer is an unconsumed iterator over the snapshot
\* cache[start:stop].
SliceReturnsFresh ==
    (ret.op = "slice" /\ ret.kind = "return") =>
        /\ colls[ret.val].pending
        /\ Cache(ret.val) = <<>>
        /\ Producer(ret.val).kind = "listiter"
        /\ Producer(ret.val).pos = 0
        /\ ~Producer(ret.val).done
        /\ Records(ret.val) = PySlice(Cache(ret.c), ret.key)

\* rows[0:2] of two records has just been returned.
WitnessC7 ==
    /\ ret.op = "slice"
    /\ ret.kind = "return"
    /\ Records(ret.val) = <<0, 1>>

\* C8: a slice with no stop returns, leaving the Collection drained.
UnboundedSliceDrains ==
    (ret.op = "slice" /\ ret.key.stopNone) =>
        /\ ret.kind = "return"
        /\ Len(Cache(ret.c)) = Len(Records(ret.c))
        /\ ~colls[ret.c].pending

ErrorMarkers == {"excInstance", "excClass"}

\* C9: on a Collection of zero records, first(default) and one(default)
\* return default when it is None or a plain value and raise it when it is
\* an exception instance or class.
FirstOneOnEmpty ==
    (ret.op \in {"first", "one"} /\ Records(ret.c) = <<>>) =>
        IF ret.default \in ErrorMarkers
        THEN ret.kind = "raise" /\ ret.what = "default"
        ELSE ret.kind = "return" /\ ret.what = "default"

\* one(default=SomeError) on the empty query raised it.
WitnessC9 ==
    /\ N = 0
    /\ ret.op = "one"
    /\ ret.c = 1
    /\ ret.default = "excClass"
    /\ ret.kind = "raise"

\* C10 as claimed: on zero records scalar(default) returns a plain default
\* and raises a default that is an error marker.
ScalarRaisesErrorMarker ==
    (ret.op = "scalar" /\ Records(ret.c) = <<>>) =>
        IF ret.default \in ErrorMarkers
        THEN ret.kind = "raise" /\ ret.what = "default"
        ELSE ret.kind = "return" /\ ret.what = "default"

\* C10: on zero records scalar(default) returns default whatever it is, an
\* exception instance or class included.
ScalarReturnsDefault ==
    (ret.op = "scalar" /\ Records(ret.c) = <<>>) =>
        ret.kind = "return" /\ ret.what = "default"

\* scalar(default=SomeError) on the empty query returned the class.
WitnessC10 ==
    /\ N = 0
    /\ ret.op = "scalar"
    /\ ret.c = 1
    /\ ret.default = "excClass"
    /\ ret.kind = "return"

\* C11: on a Collection of two or more records one(default) and
\* scalar(default) raise ValueError (MultipleRowsError) for every default,
\* whatever was cached before the call; the probe of index 1 comes first, so
\* at least two records are cached afterwards.
MultipleRowsNeverSuppressed ==
    (ret.op \in {"one", "scalar"} /\ Len(Records(ret.c)) >= 2) =>
        /\ ret.kind = "raise"
        /\ ret.what = "ValueError"
        /\ Len(Cache(ret.c)) >= 2

\* scalar(default=SomeError) on a two-record slice of the query.
WitnessC11 ==
    /\ ret.op = "scalar"
    /\ ret.c = 2
    /\ Len(Records(2)) = 2
    /\ ret.default = "excClass"
    /\ ret.what = "ValueError"

\* C12: collection[i] with 0 <= i < N returns the i-th record of the
\* producer; with i >= N it raises IndexError, and then the Collection is
\* drained: pending is false and the cache holds all N records.
IndexReturnsIthRecord ==
    (ret.op = "index" /\ ret.key.start >= 0) =>
        IF ret.key.start < Len(Records(ret.c))
        THEN /\ ret.kind = "return"
             /\ ret.what = "Record"
             /\ ret.val = Records(ret.c)[ret.key.start + 1]
        ELSE /\ ret.kind = "raise"
             /\ ret.what = "IndexError"
             /\ ~colls[ret.c].pending
             /\ Cache(ret.c) = Records(ret.c)

\* rows[1] answered with the second record, the first being pulled on the way.
WitnessC12 ==
    /\ N = 2
    /\ ret.op = "index"
    /\ ret.c = 1
    /\ ret.key.start = 1
    /\ ret.val = 1
    /\ Producer(1).pulls = 2

\* C13: pending is true on a new Collection, a step changes it only from
\* true to false, and whenever it is false the cache holds all N records.
PendingMonotone ==
    /\ \A c \in Colls : colls[c].pending
    /\ [](\A c \in Colls : ~colls[c].pending => Len(Cache(c)) = Len(Records(c)))
    /\ [][\A c \in 1..Len(colls') :
              IF c \in Colls
              THEN ~colls[c].pending => ~colls'[c].pending
              ELSE colls'[c].pending]_vars

\* The query's Collection is drained and a slice of it is still pending.
WitnessC13 ==
    /\ N = 2
    /\ Len(colls) = 2
    /\ ~colls[1].pending
    /\ colls[2].pending
    /\ Len(Cache(1)) = 2

\* C17 as claimed: collection[i] with i < 0 raises IndexError in every
\* cache state and never returns a Record.
NegativeIndexRaises ==
    (ret.op = "index" /\ ret.key.start < 0) =>
        ret.kind = "raise" /\ ret.what = "IndexError"

\* C18: collection[i] with i >= 0 leaves max(L, min(i + 1, N)) records in
\* the cache and collection[a:b] with b >= 0 leaves max(L, min(b, N)), L
\* being the length of the cache before the call; a step of an iteration
\* that is at a position below L sends its producer no request.
Laziness ==
    [][LET c == ret'.c
           L == Len(Cache(c))
           After == Len(lists'[colls'[c].all_rows])
           g == gens[ret'.g]
       IN  /\ (ret'.op = "index" /\ ret'.key.start >= 0) =>
                   After = Max(L, Min(ret'.key.start + 1, Len(Records(c))))
           /\ (ret'.op = "slice" /\ ~ret'.key.stopNone /\ ret'.key.stop >= 0) =>
                   After = Max(L, Min(ret'.key.stop, Len(Records(c))))
           /\ (ret'.op = "step" /\ g.state \in {"created", "suspended"}
                 /\ (IF g.state = "suspended" THEN g.i + 1 ELSE g.i) < L) =>
                   prods' = prods /\ lists' = lists]_vars

\* rows[0] pulled one record of two and left the second with the producer.
WitnessC18 ==
    /\ N = 2
    /\ ret.op = "index"
    /\ ret.c = 1
    /\ ret.key.start = 0
    /\ Len(Cache(1)) = 1
    /\ Producer(1).pulls = 1

\* C19: every iteration that is stepped repeatedly ends, whatever next(),
\* index, all() and other iterations are interleaved with it; it ends by
\* returning, never with an exception; when it has ended its Collection is
\* drained; and all() returns the list of all N records.
IterationTerminates ==
    /\ \A g \in 1..MaxLive :
           (g \in Gens) ~> (g \in Gens /\ gens[g].state = "done")
    /\ [](\A g \in Gens :
             /\ gens[g].state # "failed"
             /\ gens[g].state = "done" =>
                    /\ ~colls[gens[g].coll].pending
                    /\ Len(Cache(gens[g].coll)) = Len(Records(gens[g].coll)))
    /\ [](ret.op = "all" =>
             /\ ret.kind = "return"
             /\ ret.rows = Records(ret.c)
             /\ ~colls[ret.c].pending)

\* An iteration over two records has ended while a second one, started on
\* the same Collection, is still under way.
WitnessC19 ==
    /\ N = 2
    /\ Len(gens) = 2
    /\ gens[1].state = "done"
    /\ yielded[1] = <<0, 1>>
    /\ gens[2].state = "suspended"
    /\ ret.op = "step"
    /\ ret.g = 1

\* The positions of the columns of the looked-up Record that have the name
\* asked for.
Positions == {p \in 1..Len(rec.keys) : rec.keys[p] = rec.key.name}

\* C15: record[name] returns the value at the position of name when exactly
\* one column has that name and raises KeyError when several or none have
\* it; record[i] for an int i inside the value range returns the i-th
\* value, also when the column at i shares its name with another.
RecordLookup ==
    rec.op = "getitem" =>
        IF rec.key.isint
        THEN (0 <= rec.key.idx /\ rec.key.idx < Len(rec.values)) =>
                 /\ rec.kind = "return"
                 /\ rec.val = rec.values[rec.key.idx + 1]
        ELSE IF Cardinality(Positions) = 1
             THEN /\ rec.kind = "return"
                  /\ \A p \in Positions : rec.val = rec.values[p]
             ELSE rec.kind = "raise" /\ rec.what = "KeyError"

\* record[2] on columns id, email, email: the value of the second email.
WitnessC15 ==
    /\ rec.op = "getitem"
    /\ rec.keys = <<"id", "email", "email">>
    /\ rec.values = <<10, 10, 20>>
    /\ rec.key = IntIndex(2)
    /\ rec.val = 20

\* C16 as claimed: record.get(key, default) returns for every key, a name
\* or an int index inside or outside the value range: the value of
\* record[key] when that lookup succeeds and default otherwise.
RecordGetNeverRaises ==
    rec.op = "get" =>
        /\ rec.kind = "return"
        /\ \/ rec.val = DefaultValue
           \/ \E p \in 1..Len(rec.values) : rec.val = rec.values[p]

\* The with statement of a transaction has been left.
TxLeft == tx.pc = "idle" /\ tx.ntx > 0

\* C14 as claimed: a transaction whose body and commit succeed is committed
\* and not rolled back; one whose body or commit fails is rolled back and
\* none of its rows is committed; and whenever the with statement is left
\* after a connection was acquired, a failure to begin the transaction
\* included, the connection has been closed exactly once.
TransactionScoped ==
    TxLeft =>
        /\ tx.failed = "none" =>
               tx.commits = 1 /\ tx.rollbacks = 0 /\ tx.rows = tx.before + tx.stmts
        /\ tx.failed \in {"body", "commit"} =>
               tx.rollbacks = 1 /\ tx.commits = 0 /\ tx.rows = tx.before
        /\ tx.acquired => tx.closes = 1

\* C20: when the body or the commit raises, the transaction is rolled
\* back, none of its rows is committed, and the with statement ends
\* normally: the caller continues after it and sees no exception.
TransactionSuppressesFailures ==
    (TxLeft /\ tx.failed \in {"body", "commit"}) =>
        /\ tx.exit = "continues"
        /\ tx.rollbacks = 1
        /\ tx.commits = 0
        /\ tx.rows = tx.before

\* The body raised after two inserts and the caller went on.
WitnessC20 ==
    /\ TxLeft
    /\ tx.failed = "body"
    /\ tx.stmts = 2
    /\ tx.rollbacks = 1
    /\ tx.exit = "continues"

\* The requests sent so far to the producers (the cursor of the query).
Pulls == [p \in 1..Len(prods) |-> prods[p].pulls]

\* C21: when Database.query returns the Collection, the connection it
\* acquired has been closed, once, and no row has been pulled while it was
\* being built; so every request a producer gets is made when the
\* connection is closed.
QueryClosesBeforeReturn ==
    /\ [](conn.pc \in {"start", "with", "exit"} => \A p \in 1..Len(prods) : Pulls[p] = 0)
    /\ [](conn.pc = "returned" => conn.acquired /\ ~conn.open /\ conn.closes = 1)
    /\ [][(\E p \in 1..Len(prods') :
               prods'[p].pulls > (IF p <= Len(prods) THEN Pulls[p] ELSE 0)) =>
              (conn.pc = "returned" /\ ~conn.open /\ conn.closes = 1)]_vars

\* first() pulled the first of two rows after db.query had closed the
\* connection and returned.
WitnessC21 ==
    /\ N = 2
    /\ conn.pc = "returned"
    /\ ~conn.open
    /\ conn.closes = 1
    /\ ret.op = "first"
    /\ ret.kind = "return"
    /\ prods[1].pulls = 1
====
